---- MODULE Spec2Model ----
(***************************************************************************)
(* Manifestation Wall (programs/manifest-sol/src/lib.rs): an Anchor        *)
(* program with two instructions, initialize_wall and post_message.        *)
(*                                                                         *)
(* The ledger is the set of accounts the instructions touch: the lamport   *)
(* balance of every account, the Wall data stored at program-derived       *)
(* addresses, the program's event log and (as a history of the system      *)
(* program's work) the list of settled lamport transfers.  Every action is *)
(* one whole instruction: account validation as declared by the            *)
(* #[derive(Accounts)] struct, then the handler body, then the commit of   *)
(* the handler's writes if and only if the handler returned Ok.            *)
(*                                                                         *)
(* Clients pass the accounts writable where the struct says `mut`, and the *)
(* real system program as system_program.                                  *)
(***************************************************************************)
EXTENDS Integers, Sequences, FiniteSets, TLC

VARIABLES lamports, walls, log, transfers, txs, last

vars == <<lamports, walls, log, transfers, txs, last>>

----------------------------------------------------------------------------
(* Program constants                                                       *)

MESSAGE_FEE_LAMPORTS == 50000000

MAX_MESSAGE_LENGTH == 500

TRANSACTION_FEE_BUFFER == 1000000

\* Wall::LEN: dev_wallet + wall_id + bump
WallLEN == 32 + 8 + 1

\* space = 8 + Wall::LEN
WallSpace == 8 + WallLEN

\* The lamports `init` moves from the payer to the new account: the
\* runtime's rent-exempt minimum for `space` bytes (128 bytes of account
\* overhead, 3480 lamports per byte-year, two years).
RentExemptMinimum(space) == (128 + space) * 3480 * 2

----------------------------------------------------------------------------
(* Bounds of the model                                                     *)

\* Instructions processed in one behaviour.
MaxTx == 2

----------------------------------------------------------------------------
(* Keys, identities and program-derived addresses                          *)

\* Wallet public keys.  A and B are plain system accounts.  C is a keypair
\* whose account has been assigned to another program: it can sign, but the
\* system program will not debit it and it is no SystemAccount.
Identities == {"A", "B", "C"}

SystemOwned(k) == k \in {"A", "B"}

\* wall_id arguments (u64).
WallIds == {7, 8}

\* u64::to_le_bytes
RECURSIVE LeBytes(_, _)
LeBytes(n, k) == IF k = 0 THEN <<>> ELSE <<n % 256>> \o LeBytes(n \div 256, k - 1)

to_le_bytes(n) == LeBytes(n, 8)

\* Seeds that leave wall_id out: the same bytes for every wall of an owner.
WallSeeds_without_wall_id(dev_wallet, wall_id) ==
    <<"wall", dev_wallet, to_le_bytes(0)>>

\* seeds = [b"wall", dev_wallet.key().as_ref(), &wall_id.to_le_bytes()]
WallSeeds(dev_wallet, wall_id) == <<"wall", dev_wallet, to_le_bytes(wall_id)>>

KeyOrd(k) == CASE k = "A" -> 1 [] k = "B" -> 2 [] k = "C" -> 3

\* Whether hash(seeds, bump) falls on the ed25519 curve (and so is no valid
\* program address): a fixed pseudo-random predicate of seeds and bump.
OnCurve(seeds, bump) == (KeyOrd(seeds[2]) + seeds[3][1] + bump) % 3 = 0

\* Pubkey::create_program_address: the hash of seeds and bump, an injective
\* (collision-free) function of both.
create_program_address(seeds, bump) == [seeds |-> seeds, bump |-> bump]

\* Pubkey::find_program_address: tries the bumps from 255 downwards and
\* returns the first whose address is off the curve, with that address.
RECURSIVE find_bump_from(_, _)
find_bump_from(seeds, bump) ==
    IF ~OnCurve(seeds, bump) THEN bump ELSE find_bump_from(seeds, bump - 1)

find_program_address(seeds) ==
    [address |-> create_program_address(seeds, find_bump_from(seeds, 255)),
     bump    |-> find_bump_from(seeds, 255)]

\* The addresses a client names as the wall account: the canonical address
\* of each (owner, wall_id) it may try, and one address that the seeds of
\* (A, 7) give with a valid bump that is not the canonical one.
WallKeys ==
    {find_program_address(WallSeeds(p[1], p[2])).address :
        p \in ({"A", "B"} \X WallIds) \cup {<<"C", 7>>}}
    \cup {create_program_address(WallSeeds("A", 7),
              find_bump_from(WallSeeds("A", 7),
                             find_program_address(WallSeeds("A", 7)).bump - 1))}

\* struct Wall { dev_wallet, wall_id, bump }
Wall(dev_wallet, wall_id, bump) ==
    [dev_wallet |-> dev_wallet, wall_id |-> wall_id, bump |-> bump]

\* The account at a program address: untouched (no lamports, no data, owned
\* by the system program) until `init` creates it, and from then on owned
\* by this program and holding a Wall.
NoWall == [none |-> TRUE]

Uninitialized == [lamports |-> 0, data |-> NoWall]

----------------------------------------------------------------------------
(* Instruction inputs                                                      *)

\* A String argument, kept as its length in bytes (String::len) and a tag
\* for its content.
Messages == [len : {0, 1, 500, 501}, text : {"hello"}]

len(message) == message.len

\* What Clock::get() hands the handler: the cluster's unix_timestamp, or an
\* error when the sysvar cannot be read.
ClockError == [err |-> "UnsupportedSysvar"]

ClockReads == {[unix_timestamp |-> 1700000000], ClockError}

\* The clock of an instruction that failed before its transfer.
ClockUnread == [unread |-> TRUE]

\* An account passed where the instruction expects a Signer: an identity
\* that signed the transaction, or A named by a transaction A did not sign.
SignerMetas ==
    {[key |-> k, is_signer |-> TRUE] : k \in Identities}
    \cup {[key |-> "A", is_signer |-> FALSE]}

----------------------------------------------------------------------------
(* The ledger: what an instruction reads and, when it returns Ok, writes   *)

Ledger(l, w, g, t) == [lamports |-> l, walls |-> w, log |-> g, transfers |-> t]

Current == Ledger(lamports, walls, log, transfers)

Ok(st) == [res |-> "Ok", st |-> st]

Err(code, st) == [res |-> code, st |-> st]

\* The account at `key` holds a Wall written by this program.
IsWall(st, key) == st.walls[key].data # NoWall

\* A transfer whose credit is computed from the balances read before the
\* debit, so that the debit is lost.
system_transfer_lost_debit(st, tx, from, to, amount) ==
    IF ~SystemOwned(from) THEN Err("ExternalAccountLamportSpend", st)
    ELSE IF st.lamports[from] < amount THEN Err("InsufficientLamports", st)
    ELSE LET credited == [st.lamports EXCEPT ![to] = @ + amount]
         IN  Ok([st EXCEPT !.lamports = credited,
                           !.transfers = Append(@, [tx |-> tx, from |-> from,
                                                    to |-> to, lamports |-> amount])])

\* system_program::transfer: the runtime refuses to debit an account the
\* system program does not own, the system program refuses to overdraw;
\* debit and credit are applied one after the other, so a transfer to
\* oneself leaves the balance as it was.
system_transfer(st, tx, from, to, amount) ==
    IF ~SystemOwned(from) THEN Err("ExternalAccountLamportSpend", st)
    ELSE IF st.lamports[from] < amount THEN Err("InsufficientLamports", st)
    ELSE LET debited  == [st.lamports EXCEPT ![from] = @ - amount]
             credited == [debited EXCEPT ![to] = @ + amount]
         IN  Ok([st EXCEPT !.lamports = credited,
                           !.transfers = Append(@, [tx |-> tx, from |-> from,
                                                    to |-> to, lamports |-> amount])])

\* system_program::create_account, as `init` calls it: fails on an account
\* already in use, or when the payer cannot fund the rent; otherwise moves
\* the rent from the payer into the new account, which the program owns.
system_create_account(st, payer, key, space) ==
    IF IsWall(st, key) \/ st.walls[key].lamports > 0
    THEN Err("AccountAlreadyInUse", st)
    ELSE IF ~SystemOwned(payer) THEN Err("ExternalAccountLamportSpend", st)
    ELSE IF st.lamports[payer] < RentExemptMinimum(space)
    THEN Err("InsufficientLamports", st)
    ELSE Ok([st EXCEPT !.lamports[payer] = @ - RentExemptMinimum(space),
                       !.walls[key].lamports = @ + RentExemptMinimum(space)])

\* emit!: one more record at the end of the program's event log.
emit(st, tx, event) == [st EXCEPT !.log = Append(@, [tx |-> tx, event |-> event])]

WallInitialized(wall_id, dev_wallet) ==
    [name |-> "WallInitialized", wall_id |-> wall_id, dev_wallet |-> dev_wallet]

MessagePosted(wall_id, user, message, timestamp) ==
    [name |-> "MessagePosted", wall_id |-> wall_id, user |-> user,
     message |-> message, timestamp |-> timestamp]

----------------------------------------------------------------------------
(* initialize_wall                                                         *)

\* InitializeWall with init_if_needed in place of init: an account that
\* already holds a Wall is accepted as it is.
InitializeWallAccounts_init_if_needed(st, ctx, wall_id) ==
    LET pda == find_program_address(WallSeeds(ctx.dev_wallet, wall_id))
    IN  IF ~ctx.dev_wallet_signed THEN Err("AccountNotSigner", st)
        ELSE IF ctx.wall # pda.address THEN Err("ConstraintSeeds", st)
        ELSE IF IsWall(st, ctx.wall) THEN Ok(st)
        ELSE system_create_account(st, ctx.dev_wallet, ctx.wall, WallSpace)

\* #[derive(Accounts)] struct InitializeWall: dev_wallet must have signed;
\* wall must be the address find_program_address gives for the seeds, and
\* `init` creates it there with dev_wallet paying the rent.
InitializeWallAccounts(st, ctx, wall_id) ==
    LET pda == find_program_address(WallSeeds(ctx.dev_wallet, wall_id))
    IN  IF ~ctx.dev_wallet_signed THEN Err("AccountNotSigner", st)
        ELSE IF ctx.wall # pda.address THEN Err("ConstraintSeeds", st)
        ELSE system_create_account(st, ctx.dev_wallet, ctx.wall, WallSpace)

\* ctx.bumps.wall: the bump the seeds constraint found.
InitializeWallBumps(ctx, wall_id) ==
    [wall |-> find_program_address(WallSeeds(ctx.dev_wallet, wall_id)).bump]

\* initialize_wall with the bump left at the account's zeroed default.
initialize_wall_bump_unset(st, tx, ctx, wall_id) ==
    LET wall    == Wall(ctx.dev_wallet, wall_id, 0)
        written == [st EXCEPT !.walls[ctx.wall].data = wall]
    IN  Ok(emit(written, tx, WallInitialized(wall_id, wall.dev_wallet)))

\* pub fn initialize_wall(ctx, wall_id)
initialize_wall(st, tx, ctx, wall_id) ==
    LET wall    == Wall(ctx.dev_wallet, wall_id, InitializeWallBumps(ctx, wall_id).wall)
        written == [st EXCEPT !.walls[ctx.wall].data = wall]
    IN  Ok(emit(written, tx, WallInitialized(wall_id, wall.dev_wallet)))

----------------------------------------------------------------------------
(* post_message                                                            *)

\* PostMessage accounts without the seeds constraint on wall.
PostMessageAccounts_without_seeds(st, ctx) ==
    LET wall == st.walls[ctx.wall].data
    IN  IF ~IsWall(st, ctx.wall) THEN Err("AccountNotInitialized", st)
        ELSE IF ~ctx.user_signed THEN Err("AccountNotSigner", st)
        ELSE IF ~SystemOwned(ctx.dev_wallet) THEN Err("AccountNotSystemOwned", st)
        ELSE IF ctx.dev_wallet # wall.dev_wallet THEN Err("ConstraintAddress", st)
        ELSE Ok(st)

\* PostMessage accounts with `bump` in place of `bump = wall.bump`: the
\* address is searched for again instead of rebuilt from the stored bump.
PostMessageAccounts_fresh_search(st, ctx) ==
    LET wall == st.walls[ctx.wall].data
    IN  IF ~IsWall(st, ctx.wall) THEN Err("AccountNotInitialized", st)
        ELSE IF ~ctx.user_signed THEN Err("AccountNotSigner", st)
        ELSE IF ~SystemOwned(ctx.dev_wallet) THEN Err("AccountNotSystemOwned", st)
        ELSE IF find_program_address(WallSeeds(wall.dev_wallet, wall.wall_id)).address
                   # ctx.wall
        THEN Err("ConstraintSeeds", st)
        ELSE IF ctx.dev_wallet # wall.dev_wallet THEN Err("ConstraintAddress", st)
        ELSE Ok(st)

\* #[derive(Accounts)] struct PostMessage: wall must hold a Wall of this
\* program, user must have signed, dev_wallet must be a system account;
\* then the constraints: wall sits at the address its own stored
\* dev_wallet, wall_id and bump derive, and dev_wallet is the address stored
\* in the wall.  All of it runs before the handler.
PostMessageAccounts(st, ctx) ==
    LET wall == st.walls[ctx.wall].data
    IN  IF ~IsWall(st, ctx.wall) THEN Err("AccountNotInitialized", st)
        ELSE IF ~ctx.user_signed THEN Err("AccountNotSigner", st)
        ELSE IF ~SystemOwned(ctx.dev_wallet) THEN Err("AccountNotSystemOwned", st)
        ELSE IF create_program_address(WallSeeds(wall.dev_wallet, wall.wall_id),
                                       wall.bump) # ctx.wall
        THEN Err("ConstraintSeeds", st)
        ELSE IF ctx.dev_wallet # wall.dev_wallet THEN Err("ConstraintAddress", st)
        ELSE Ok(st)

\* post_message going on to the event although the transfer failed.
post_message_transfer_unchecked(st, tx, ctx, message, clock) ==
    LET wall == st.walls[ctx.wall].data
    IN  IF ~(len(message) > 0) THEN Err("EmptyMessage", st)
        ELSE IF ~(len(message) <= MAX_MESSAGE_LENGTH) THEN Err("MessageTooLong", st)
        ELSE IF ~(ctx.dev_wallet = wall.dev_wallet) THEN Err("InvalidDevWallet", st)
        ELSE IF ~(st.lamports[ctx.user] >= MESSAGE_FEE_LAMPORTS + TRANSACTION_FEE_BUFFER)
        THEN Err("InsufficientFunds", st)
        ELSE LET paid == system_transfer(st, tx, ctx.user, ctx.dev_wallet,
                                         MESSAGE_FEE_LAMPORTS)
             IN  IF clock = ClockError THEN Err(clock.err, paid.st)
                 ELSE Ok(emit(paid.st, tx,
                              MessagePosted(wall.wall_id, ctx.user, message,
                                            clock.unix_timestamp)))

\* post_message treating an unreadable clock as nothing to report.
post_message_clock_unchecked(st, tx, ctx, message, clock) ==
    LET wall == st.walls[ctx.wall].data
    IN  IF ~(len(message) > 0) THEN Err("EmptyMessage", st)
        ELSE IF ~(len(message) <= MAX_MESSAGE_LENGTH) THEN Err("MessageTooLong", st)
        ELSE IF ~(ctx.dev_wallet = wall.dev_wallet) THEN Err("InvalidDevWallet", st)
        ELSE IF ~(st.lamports[ctx.user] >= MESSAGE_FEE_LAMPORTS + TRANSACTION_FEE_BUFFER)
        THEN Err("InsufficientFunds", st)
        ELSE LET paid == system_transfer(st, tx, ctx.user, ctx.dev_wallet,
                                         MESSAGE_FEE_LAMPORTS)
             IN  IF paid.res # "Ok" THEN paid
                 ELSE IF clock = ClockError THEN Ok(paid.st)
                 ELSE Ok(emit(paid.st, tx,
                              MessagePosted(wall.wall_id, ctx.user, message,
                                            clock.unix_timestamp)))

\* post_message recording the poster in the wall it holds writable.
post_message_writes_wall(st, tx, ctx, message, clock) ==
    LET wall == st.walls[ctx.wall].data
    IN  IF ~(len(message) > 0) THEN Err("EmptyMessage", st)
        ELSE IF ~(len(message) <= MAX_MESSAGE_LENGTH) THEN Err("MessageTooLong", st)
        ELSE IF ~(ctx.dev_wallet = wall.dev_wallet) THEN Err("InvalidDevWallet", st)
        ELSE IF ~(st.lamports[ctx.user] >= MESSAGE_FEE_LAMPORTS + TRANSACTION_FEE_BUFFER)
        THEN Err("InsufficientFunds", st)
        ELSE LET paid == system_transfer(st, tx, ctx.user, ctx.dev_wallet,
                                         MESSAGE_FEE_LAMPORTS)
             IN  IF paid.res # "Ok" THEN paid
                 ELSE IF clock = ClockError THEN Err(clock.err, paid.st)
                 ELSE Ok(emit([paid.st EXCEPT !.walls[ctx.wall].data.dev_wallet = ctx.user],
                              tx,
                              MessagePosted(wall.wall_id, ctx.user, message,
                                            clock.unix_timestamp)))

\* post_message moving the fee and the buffer.
post_message_fee_with_buffer(st, tx, ctx, message, clock) ==
    LET wall == st.walls[ctx.wall].data
    IN  IF ~(len(message) > 0) THEN Err("EmptyMessage", st)
        ELSE IF ~(len(message) <= MAX_MESSAGE_LENGTH) THEN Err("MessageTooLong", st)
        ELSE IF ~(ctx.dev_wallet = wall.dev_wallet) THEN Err("InvalidDevWallet", st)
        ELSE IF ~(st.lamports[ctx.user] >= MESSAGE_FEE_LAMPORTS + TRANSACTION_FEE_BUFFER)
        THEN Err("InsufficientFunds", st)
        ELSE LET paid == system_transfer(st, tx, ctx.user, ctx.dev_wallet,
                                         MESSAGE_FEE_LAMPORTS + TRANSACTION_FEE_BUFFER)
             IN  IF paid.res # "Ok" THEN paid
                 ELSE IF clock = ClockError THEN Err(clock.err, paid.st)
                 ELSE Ok(emit(paid.st, tx,
                              MessagePosted(wall.wall_id, ctx.user, message,
                                            clock.unix_timestamp)))

\* post_message with `<` for `<=` in the length check.
post_message_len_below_max(st, tx, ctx, message, clock) ==
    LET wall == st.walls[ctx.wall].data
    IN  IF ~(len(message) > 0) THEN Err("EmptyMessage", st)
        ELSE IF ~(len(message) < MAX_MESSAGE_LENGTH) THEN Err("MessageTooLong", st)
        ELSE IF ~(ctx.dev_wallet = wall.dev_wallet) THEN Err("InvalidDevWallet", st)
        ELSE IF ~(st.lamports[ctx.user] >= MESSAGE_FEE_LAMPORTS + TRANSACTION_FEE_BUFFER)
        THEN Err("InsufficientFunds", st)
        ELSE LET paid == system_transfer(st, tx, ctx.user, ctx.dev_wallet,
                                         MESSAGE_FEE_LAMPORTS)
             IN  IF paid.res # "Ok" THEN paid
                 ELSE IF clock = ClockError THEN Err(clock.err, paid.st)
                 ELSE Ok(emit(paid.st, tx,
                              MessagePosted(wall.wall_id, ctx.user, message,
                                            clock.unix_timestamp)))

\* post_message with `>` for `>=` in the funds check.
post_message_funds_above(st, tx, ctx, message, clock) ==
    LET wall == st.walls[ctx.wall].data
    IN  IF ~(len(message) > 0) THEN Err("EmptyMessage", st)
        ELSE IF ~(len(message) <= MAX_MESSAGE_LENGTH) THEN Err("MessageTooLong", st)
        ELSE IF ~(ctx.dev_wallet = wall.dev_wallet) THEN Err("InvalidDevWallet", st)
        ELSE IF ~(st.lamports[ctx.user] > MESSAGE_FEE_LAMPORTS + TRANSACTION_FEE_BUFFER)
        THEN Err("InsufficientFunds", st)
        ELSE LET paid == system_transfer(st, tx, ctx.user, ctx.dev_wallet,
                                         MESSAGE_FEE_LAMPORTS)
             IN  IF paid.res # "Ok" THEN paid
                 ELSE IF clock = ClockError THEN Err(clock.err, paid.st)
                 ELSE Ok(emit(paid.st, tx,
                              MessagePosted(wall.wall_id, ctx.user, message,
                                            clock.unix_timestamp)))

\* post_message crediting the fee to the wall account, not to dev_wallet.
post_message_pays_wall(st, tx, ctx, message, clock) ==
    LET wall == st.walls[ctx.wall].data
    IN  IF ~(len(message) > 0) THEN Err("EmptyMessage", st)
        ELSE IF ~(len(message) <= MAX_MESSAGE_LENGTH) THEN Err("MessageTooLong", st)
        ELSE IF ~(ctx.dev_wallet = wall.dev_wallet) THEN Err("InvalidDevWallet", st)
        ELSE IF ~(st.lamports[ctx.user] >= MESSAGE_FEE_LAMPORTS + TRANSACTION_FEE_BUFFER)
        THEN Err("InsufficientFunds", st)
        ELSE LET paid == system_transfer(st, tx, ctx.user, ctx.dev_wallet,
                                         MESSAGE_FEE_LAMPORTS)
                 moved == [paid.st EXCEPT
                             !.lamports[ctx.dev_wallet] = @ - MESSAGE_FEE_LAMPORTS,
                             !.walls[ctx.wall].lamports = @ + MESSAGE_FEE_LAMPORTS]
             IN  IF paid.res # "Ok" THEN paid
                 ELSE IF clock = ClockError THEN Err(clock.err, moved)
                 ELSE Ok(emit(moved, tx,
                              MessagePosted(wall.wall_id, ctx.user, message,
                                            clock.unix_timestamp)))

\* post_message reading the clock before it transfers the fee.
post_message_clock_first(st, tx, ctx, message, clock) ==
    LET wall == st.walls[ctx.wall].data
    IN  IF ~(len(message) > 0) THEN Err("EmptyMessage", st)
        ELSE IF ~(len(message) <= MAX_MESSAGE_LENGTH) THEN Err("MessageTooLong", st)
        ELSE IF ~(ctx.dev_wallet = wall.dev_wallet) THEN Err("InvalidDevWallet", st)
        ELSE IF ~(st.lamports[ctx.user] >= MESSAGE_FEE_LAMPORTS + TRANSACTION_FEE_BUFFER)
        THEN Err("InsufficientFunds", st)
        ELSE IF clock = ClockError THEN Err(clock.err, st)
        ELSE LET paid == system_transfer(st, tx, ctx.user, ctx.dev_wallet,
                                         MESSAGE_FEE_LAMPORTS)
             IN  IF paid.res # "Ok" THEN paid
                 ELSE Ok(emit(paid.st, tx,
                              MessagePosted(wall.wall_id, ctx.user, message,
                                            clock.unix_timestamp)))

\* post_message with the two ends of the transfer exchanged.
post_message_reversed_transfer(st, tx, ctx, message, clock) ==
    LET wall == st.walls[ctx.wall].data
    IN  IF ~(len(message) > 0) THEN Err("EmptyMessage", st)
        ELSE IF ~(len(message) <= MAX_MESSAGE_LENGTH) THEN Err("MessageTooLong", st)
        ELSE IF ~(ctx.dev_wallet = wall.dev_wallet) THEN Err("InvalidDevWallet", st)
        ELSE IF ~(st.lamports[ctx.user] >= MESSAGE_FEE_LAMPORTS + TRANSACTION_FEE_BUFFER)
        THEN Err("InsufficientFunds", st)
        ELSE LET paid == system_transfer(st, tx, ctx.dev_wallet, ctx.user,
                                         MESSAGE_FEE_LAMPORTS)
             IN  IF paid.res # "Ok" THEN paid
                 ELSE IF clock = ClockError THEN Err(clock.err, paid.st)
                 ELSE Ok(emit(paid.st, tx,
                              MessagePosted(wall.wall_id, ctx.user, message,
                                            clock.unix_timestamp)))

\* post_message treating a message already on the wall by the same poster
\* as posted: it returns Ok without a transfer or an event.
post_message_deduplicating(st, tx, ctx, message, clock) ==
    LET wall == st.walls[ctx.wall].data
    IN  IF ~(len(message) > 0) THEN Err("EmptyMessage", st)
        ELSE IF ~(len(message) <= MAX_MESSAGE_LENGTH) THEN Err("MessageTooLong", st)
        ELSE IF ~(ctx.dev_wallet = wall.dev_wallet) THEN Err("InvalidDevWallet", st)
        ELSE IF ~(st.lamports[ctx.user] >= MESSAGE_FEE_LAMPORTS + TRANSACTION_FEE_BUFFER)
        THEN Err("InsufficientFunds", st)
        ELSE IF \E i \in DOMAIN st.log :
                   /\ st.log[i].event.name = "MessagePosted"
                   /\ st.log[i].event.wall_id = wall.wall_id
                   /\ st.log[i].event.user = ctx.user
                   /\ st.log[i].event.message = message
        THEN Ok(st)
        ELSE LET paid == system_transfer(st, tx, ctx.user, ctx.dev_wallet,
                                         MESSAGE_FEE_LAMPORTS)
             IN  IF paid.res # "Ok" THEN paid
                 ELSE IF clock = ClockError THEN Err(clock.err, paid.st)
                 ELSE Ok(emit(paid.st, tx,
                              MessagePosted(wall.wall_id, ctx.user, message,
                                            clock.unix_timestamp)))

\* post_message asking the poster for the fee alone, without the buffer.
post_message_funds_without_buffer(st, tx, ctx, message, clock) ==
    LET wall == st.walls[ctx.wall].data
    IN  IF ~(len(message) > 0) THEN Err("EmptyMessage", st)
        ELSE IF ~(len(message) <= MAX_MESSAGE_LENGTH) THEN Err("MessageTooLong", st)
        ELSE IF ~(ctx.dev_wallet = wall.dev_wallet) THEN Err("InvalidDevWallet", st)
        ELSE IF ~(st.lamports[ctx.user] >= MESSAGE_FEE_LAMPORTS)
        THEN Err("InsufficientFunds", st)
        ELSE LET paid == system_transfer(st, tx, ctx.user, ctx.dev_wallet,
                                         MESSAGE_FEE_LAMPORTS)
             IN  IF paid.res # "Ok" THEN paid
                 ELSE IF clock = ClockError THEN Err(clock.err, paid.st)
                 ELSE Ok(emit(paid.st, tx,
                              MessagePosted(wall.wall_id, ctx.user, message,
                                            clock.unix_timestamp)))

\* pub fn post_message(ctx, message); `clock` is what Clock::get() returns.
post_message(st, tx, ctx, message, clock) ==
    LET wall == st.walls[ctx.wall].data
    IN  \* 1. Check message length
        IF ~(len(message) > 0) THEN Err("EmptyMessage", st)
        ELSE IF ~(len(message) <= MAX_MESSAGE_LENGTH) THEN Err("MessageTooLong", st)
        \* 2. Verify dev wallet matches
        ELSE IF ~(ctx.dev_wallet = wall.dev_wallet) THEN Err("InvalidDevWallet", st)
        \* 3. Check if user has sufficient funds
        ELSE IF ~(st.lamports[ctx.user] >= MESSAGE_FEE_LAMPORTS + TRANSACTION_FEE_BUFFER)
        THEN Err("InsufficientFunds", st)
        \* 4. Transfer fee from user to dev wallet
        ELSE LET paid == system_transfer(st, tx, ctx.user, ctx.dev_wallet,
                                         MESSAGE_FEE_LAMPORTS)
             IN  IF paid.res # "Ok" THEN paid
                 \* 5. Emit event
                 ELSE IF clock = ClockError THEN Err(clock.err, paid.st)
                 ELSE Ok(emit(paid.st, tx,
                              MessagePosted(wall.wall_id, ctx.user, message,
                                            clock.unix_timestamp)))

----------------------------------------------------------------------------
(* The program's entry point                                               *)

\* Anchor's dispatch: the accounts struct is validated, then the handler
\* runs on what validation left.
InitializeWallInstruction(st, tx, ctx, wall_id) ==
    LET checked == InitializeWallAccounts(st, ctx, wall_id)
    IN  IF checked.res # "Ok" THEN checked
        ELSE initialize_wall(checked.st, tx, ctx, wall_id)

PostMessageInstruction(st, tx, ctx, message, clock) ==
    LET checked == PostMessageAccounts(st, ctx)
    IN  IF checked.res # "Ok" THEN checked
        ELSE post_message(checked.st, tx, ctx, message, clock)

\* An instruction that returns Err is aborted by the runtime: none of its
\* writes, transfers or log records reach the ledger.
Commit(pre, out) == IF out.res = "Ok" THEN out.st ELSE pre

Apply(out) ==
    LET post == Commit(Current, out)
    IN  /\ lamports' = post.lamports
        /\ walls' = post.walls
        /\ log' = post.log
        /\ transfers' = post.transfers
        /\ txs' = txs + 1

----------------------------------------------------------------------------
(* Initial states and actions                                              *)

\* Balances at the start: A well funded, B exactly at or one lamport below
\* what post_message asks of a poster, C (not a system account) funded.
InitialLamports ==
    {[k \in Identities |-> CASE k = "A" -> 200000000
                             [] k = "B" -> b
                             [] k = "C" -> 100000000] :
        b \in {50999999, 51000000}}

Genesis(l) == Ledger(l, [k \in WallKeys |-> Uninitialized], <<>>, <<>>)

\* The ledger after A has initialized wall 7 (instruction number 0).
WithWallA7(l) ==
    InitializeWallInstruction(
        Genesis(l), 0,
        [wall |-> find_program_address(WallSeeds("A", 7)).address,
         dev_wallet |-> "A", dev_wallet_signed |-> TRUE], 7).st

\* A behaviour starts on a fresh deployment, or with wall (A, 7) in place.
Init ==
    /\ \E l \in InitialLamports : \E start \in {Genesis(l), WithWallA7(l)} :
          /\ lamports = start.lamports
          /\ walls = start.walls
          /\ log = start.log
          /\ transfers = start.transfers
    /\ txs = 0
    /\ last = [op |-> "none", res |-> "none"]

InitializeWall ==
    /\ txs < MaxTx
    /\ \E wall \in WallKeys, dev_wallet \in SignerMetas, wall_id \in WallIds :
          LET ctx == [wall |-> wall, dev_wallet |-> dev_wallet.key,
                      dev_wallet_signed |-> dev_wallet.is_signer]
              out == InitializeWallInstruction(Current, txs + 1, ctx, wall_id)
          IN  /\ Apply(out)
              /\ last' = [op |-> "InitializeWall", tx |-> txs + 1, ctx |-> ctx,
                          wall_id |-> wall_id, res |-> out.res]

\* Whether post_message, on these accounts and this message, gets past its
\* require! checks and so comes to the transfer, after which it reads the
\* clock.  `clock` is the state of the Clock sysvar in such an instruction,
\* whether or not the transfer lets the handler come to read it.
ReachesTransfer(st, tx, ctx, message) ==
    PostMessageInstruction(st, tx, ctx, message,
                           [unix_timestamp |-> 1700000000]).res
        \in {"Ok", "ExternalAccountLamportSpend", "InsufficientLamports"}

PostMessage ==
    /\ txs < MaxTx
    /\ \E wall \in WallKeys, user \in SignerMetas, dev_wallet \in Identities,
          message \in Messages :
          LET ctx == [wall |-> wall, user |-> user.key, user_signed |-> user.is_signer,
                      dev_wallet |-> dev_wallet]
              st  == Current
          IN  \E clock \in IF ReachesTransfer(st, txs + 1, ctx, message)
                           THEN ClockReads ELSE {ClockUnread} :
                LET out == PostMessageInstruction(st, txs + 1, ctx, message, clock)
                IN  /\ Apply(out)
                    /\ last' = [op |-> "PostMessage", tx |-> txs + 1, ctx |-> ctx,
                                message |-> message, clock |-> clock, res |-> out.res]

Next == InitializeWall \/ PostMessage

Spec == Init /\ [][Next]_vars

\* The Wall records the account layout admits at the accounts a client may
\* name: any owner, any wall_id, and a bump that may or may not be the one
\* find_program_address returns.
AnyWalls == {Wall(o, i, b) : o \in Identities, i \in WallIds, b \in 253..255}

\* The account constraints as functions of the account contents: one
\* instruction runs on a ledger in which one wall account holds any Wall
\* record (or none does), whether or not initialize_wall could have put it
\* there.
InitAnyWall ==
    /\ \E l \in InitialLamports, k \in WallKeys, w \in AnyWalls \cup {NoWall} :
          /\ lamports = l
          /\ walls = [Genesis(l).walls EXCEPT
                        ![k] = IF w = NoWall THEN Uninitialized
                               ELSE [lamports |-> RentExemptMinimum(WallSpace),
                                     data |-> w]]
    /\ log = <<>>
    /\ transfers = <<>>
    /\ txs = MaxTx - 1
    /\ last = [op |-> "none", res |-> "none"]

SpecAnyWall == InitAnyWall /\ [][Next]_vars

----------------------------------------------------------------------------
(* Properties                                                              *)

ledger == <<lamports, walls, log, transfers>>

IsMessagePosted(entry) == entry.event.name = "MessagePosted"

IsWallInitialized(entry) == entry.event.name = "WallInitialized"

PostedEntries == {i \in DOMAIN log : IsMessagePosted(log[i])}

\* The settled fee transfers of instruction tx.
TransfersOf(tx) == {j \in DOMAIN transfers : transfers[j].tx = tx}

\* The MessagePosted events of instruction tx.
PostedOf(tx) == {i \in PostedEntries : log[i].tx = tx}

\* C1: every MessagePosted event in the log has exactly one settled transfer
\* made by the same instruction, of exactly 50,000,000 lamports, from the
\* event's poster to the owner stored in a wall with the event's wall_id;
\* and every settled fee transfer has exactly one MessagePosted event of the
\* same instruction.
C1_EventIffFeeTransfer ==
    /\ \A i \in PostedEntries :
          /\ Cardinality(TransfersOf(log[i].tx)) = 1
          /\ \A j \in TransfersOf(log[i].tx) :
                /\ transfers[j].lamports = 50000000
                /\ transfers[j].from = log[i].event.user
                /\ \E k \in WallKeys :
                      /\ IsWall(Current, k)
                      /\ walls[k].data.wall_id = log[i].event.wall_id
                      /\ walls[k].data.dev_wallet = transfers[j].to
    /\ \A j \in DOMAIN transfers : Cardinality(PostedOf(transfers[j].tx)) = 1

\* A post has been committed: its event is the last of the log.
C1_Witness ==
    /\ last.op = "PostMessage" /\ last.res = "Ok"
    /\ log # <<>> /\ IsMessagePosted(log[Len(log)])
    /\ log[Len(log)].tx = last.tx

\* C2: an instruction that returns an error, or a post_message whose clock
\* read fails, leaves balances, wall accounts, event log and settled
\* transfers exactly as they were.
C2_FailureLeavesNoTrace ==
    [][(\/ last'.res # "Ok"
        \/ (last'.op = "PostMessage" /\ last'.clock = ClockError))
       => UNCHANGED ledger]_vars

\* A post failed at the clock read, after its transfer had gone through.
C2_Witness ==
    /\ last.op = "PostMessage" /\ last.clock = ClockError
    /\ last.res = "UnsupportedSysvar"

\* The wall account that stores (dev_wallet, wall_id), if there is one.
WallsOf(dev_wallet, wall_id) ==
    {k \in WallKeys : /\ IsWall(Current, k)
                      /\ walls[k].data.dev_wallet = dev_wallet
                      /\ walls[k].data.wall_id = wall_id}

InitializedEntries(dev_wallet, wall_id) ==
    {i \in DOMAIN log : /\ IsWallInitialized(log[i])
                        /\ log[i].event.dev_wallet = dev_wallet
                        /\ log[i].event.wall_id = wall_id}

\* C3: an InitializeWall for an (owner, wall_id) that already has its wall
\* fails and changes nothing; and at all times an (owner, wall_id) has one
\* WallInitialized event if its wall exists and none otherwise.
C3_SecondInitFails ==
    /\ [][(/\ last'.op = "InitializeWall"
           /\ WallsOf(last'.ctx.dev_wallet, last'.wall_id) # {})
          => (last'.res # "Ok" /\ UNCHANGED ledger)]_vars
    /\ [](\A o \in Identities, i \in WallIds :
            Cardinality(InitializedEntries(o, i)) = Cardinality(WallsOf(o, i))
            /\ Cardinality(WallsOf(o, i)) <= 1)

\* A second InitializeWall met the existing account.
C3_Witness ==
    /\ last.op = "InitializeWall" /\ last.res = "AccountAlreadyInUse"
    /\ Cardinality(InitializedEntries(last.ctx.dev_wallet, last.wall_id)) = 1

\* C4: the dev_wallet stored in a wall is the signer of the InitializeWall
\* that created the wall, and no later instruction changes it.
C4_OwnerImmutable ==
    [][\A k \in WallKeys :
         /\ IsWall(Current, k) =>
               /\ walls'[k].data # NoWall
               /\ walls'[k].data.dev_wallet = walls[k].data.dev_wallet
         /\ (~IsWall(Current, k) /\ walls'[k].data # NoWall) =>
               /\ last'.op = "InitializeWall" /\ last'.res = "Ok"
               /\ last'.ctx.wall = k
               /\ last'.ctx.dev_wallet_signed
               /\ walls'[k].data.dev_wallet = last'.ctx.dev_wallet]_vars

\* Someone other than the owner has posted on a wall, which still names
\* its owner.
C4_Witness ==
    /\ last.op = "PostMessage" /\ last.res = "Ok"
    /\ last.ctx.user # walls[last.ctx.wall].data.dev_wallet
    /\ walls[last.ctx.wall].data.dev_wallet = "A"

\* The owner stored in the wall the last instruction named.
OwnerOf(key) == walls[key].data.dev_wallet

\* C5 as stated: every successful post lowers the poster's balance by at
\* least 50,000,000 and raises the owner's by exactly 50,000,000.
C5_PosterPaysOwnerGains ==
    [][(last'.op = "PostMessage" /\ last'.res = "Ok") =>
         /\ lamports'[last'.ctx.user] <= lamports[last'.ctx.user] - 50000000
         /\ lamports'[OwnerOf(last'.ctx.wall)]
               = lamports[OwnerOf(last'.ctx.wall)] + 50000000]_vars

\* C5 amended: a successful post by a poster who is not the wall's owner
\* lowers the poster's balance by at least 50,000,000 and raises the
\* owner's by exactly 50,000,000; a successful post by the owner on its own
\* wall leaves the owner's balance as it was.
C5_PosterPaysOwnerGainsUnlessSame ==
    [][(last'.op = "PostMessage" /\ last'.res = "Ok") =>
         IF last'.ctx.user # OwnerOf(last'.ctx.wall)
         THEN /\ lamports'[last'.ctx.user] <= lamports[last'.ctx.user] - 50000000
              /\ lamports'[OwnerOf(last'.ctx.wall)]
                    = lamports[OwnerOf(last'.ctx.wall)] + 50000000
         ELSE lamports'[last'.ctx.user] = lamports[last'.ctx.user]]_vars

\* B, who started with 51,000,000, has paid the fee for a post on another
\* identity's wall.
C5_Witness ==
    /\ last.op = "PostMessage" /\ last.res = "Ok"
    /\ last.ctx.user = "B" /\ OwnerOf(last.ctx.wall) = "A"
    /\ lamports["B"] = 1000000

\* C6 as stated: a post (signed, the message of 1..500 bytes, the poster
\* funded) that names, as dev wallet, a system account other than the one
\* stored in the wall fails with InvalidDevWallet and changes nothing.
C6_MismatchIsInvalidDevWallet ==
    [][(/\ last'.op = "PostMessage"
        /\ IsWall(Current, last'.ctx.wall)
        /\ last'.ctx.user_signed
        /\ SystemOwned(last'.ctx.dev_wallet)
        /\ last'.message.len \in 1..500
        /\ lamports[last'.ctx.user] >= 51000000
        /\ last'.ctx.dev_wallet # OwnerOf(last'.ctx.wall))
       => (last'.res = "InvalidDevWallet" /\ UNCHANGED ledger)]_vars

C8_FundsCheck ==
    [][(/\ last'.op = "PostMessage"
        /\ PostMessageAccounts(Current, last'.ctx).res = "Ok"
        /\ last'.message.len \in 1..500) =>
         /\ last'.res = "InsufficientFunds" <=> lamports[last'.ctx.user] < 51000000
         /\ (/\ lamports[last'.ctx.user] = 51000000
             /\ SystemOwned(last'.ctx.user)
             /\ last'.clock # ClockError) => last'.res = "Ok"]_vars

\* A poster holding exactly 50,999,999 has been turned away.
C8_Witness ==
    /\ last.op = "PostMessage" /\ last.res = "InsufficientFunds"
    /\ lamports[last.ctx.user] = 50999999

\* Posts in the log made by `id`, and posts whose fee went to `id`.
PostsBy(id) == {i \in PostedEntries : log[i].event.user = id}

PostsPaidTo(id) ==
    {i \in PostedEntries : \E j \in TransfersOf(log[i].tx) : transfers[j].to = id}

WallsPaidBy(id) == {k \in WallKeys : IsWall(Current, k) /\ OwnerOf(k) = id}

\* Only wall (A, 7), in place from the start, exists and every instruction
\* committed since was a post on it.
OnlyPostsOnWallA7 ==
    /\ \A k \in WallKeys :
          IsWall(Current, k) <=> k = find_program_address(WallSeeds("A", 7)).address
    /\ log # <<>> /\ log[1].tx = 0
    /\ Len(log) = 1 + Cardinality(PostedEntries)

C10_InitializeWallEffect ==
    [][last'.op = "InitializeWall" =>
         LET ctx == last'.ctx
             pda == find_program_address(WallSeeds(ctx.dev_wallet, last'.wall_id))
         IN  /\ last'.res = "Ok" =>
                   /\ ctx.dev_wallet_signed
                   /\ ctx.wall = pda.address
                   /\ ~IsWall(Current, ctx.wall)
                   /\ walls'[ctx.wall].data
                         = [dev_wallet |-> ctx.dev_wallet,
                            wall_id |-> last'.wall_id, bump |-> pda.bump]
                   /\ \A k \in WallKeys \ {ctx.wall} : walls'[k] = walls[k]
                   /\ log' = Append(log, [tx |-> last'.tx,
                                          event |-> [name |-> "WallInitialized",
                                                     wall_id |-> last'.wall_id,
                                                     dev_wallet |-> ctx.dev_wallet]])
             /\ ~ctx.dev_wallet_signed =>
                   (last'.res = "AccountNotSigner" /\ UNCHANGED ledger)]_vars

\* B has initialized wall 8.
C10_Witness ==
    /\ last.op = "InitializeWall" /\ last.res = "Ok"
    /\ last.ctx.dev_wallet = "B" /\ last.wall_id = 8
    /\ walls[last.ctx.wall].data.dev_wallet = "B"

\* A post_message whose wall account is initialized, whose user signed and
\* whose dev_wallet account is a system account other than the wall's owner.
PostNamesAnotherOwner(op) ==
    /\ op.op = "PostMessage"
    /\ IsWall(Current, op.ctx.wall)
    /\ op.ctx.user_signed
    /\ SystemOwned(op.ctx.dev_wallet)
    /\ op.ctx.dev_wallet # OwnerOf(op.ctx.wall)

\* C11 as stated: the checks of post_message are reported in the order
\* message length, owner match, funds: a post with an empty message and a
\* dev_wallet that is not the wall's owner returns EmptyMessage, and a post
\* with a valid message, a dev_wallet that is not the wall's owner and a
\* poster below 51,000,000 lamports returns InvalidDevWallet.
C11_FirstFailingCheckReported ==
    [][PostNamesAnotherOwner(last') =>
         /\ len(last'.message) = 0 => last'.res = "EmptyMessage"
         /\ (/\ len(last'.message) \in 1..500
             /\ lamports[last'.ctx.user] < 51000000)
               => last'.res = "InvalidDevWallet"]_vars

\* The wall accounts an instruction changed.
WallsChanged == {k \in WallKeys : walls'[k] # walls[k]}

\* C12: post_message leaves every wall account as it was and changes no
\* balance other than the poster's and the wall owner's; a wall account
\* changes only in a successful initialize_wall, which changes that one
\* account, uninitialized until then: each wall is written exactly once.
C12_PostMessageFrame ==
    [][/\ last'.op = "PostMessage" =>
            /\ walls' = walls
            /\ \A id \in Identities :
                  lamports'[id] # lamports[id]
                     => /\ IsWall(Current, last'.ctx.wall)
                        /\ id \in {last'.ctx.user, OwnerOf(last'.ctx.wall)}
       /\ WallsChanged # {} =>
            /\ last'.op = "InitializeWall" /\ last'.res = "Ok"
            /\ WallsChanged = {last'.ctx.wall}
            /\ ~IsWall(Current, last'.ctx.wall)
            /\ walls'[last'.ctx.wall].data # NoWall]_vars

\* B has paid A for a post on wall (A, 7), which is as A initialized it, and
\* C's balance is what it was.
C12_Witness ==
    /\ last.op = "PostMessage" /\ last.res = "Ok"
    /\ last.ctx.user = "B" /\ OwnerOf(last.ctx.wall) = "A"
    /\ lamports["B"] < 51000000 /\ lamports["C"] = 100000000
    /\ walls[last.ctx.wall].data = Wall("A", 7, walls[last.ctx.wall].data.bump)

\* C13: in a post_message that gets past its checks the transfer comes
\* first: when it fails, the instruction returns the transfer's error
\* whatever the clock would have given, and nothing changes, so no event is
\* appended; when it succeeds and the clock read fails, the instruction
\* returns the clock's error and nothing changes, so the transfer does not
\* stand; when both succeed, exactly the transfer and the event are added.
\* In every state an instruction has a settled fee transfer exactly when it
\* has a MessagePosted event.
C13_TransferBeforeClockAndEvent ==
    /\ [][(/\ last'.op = "PostMessage"
           /\ ReachesTransfer(Current, last'.tx, last'.ctx, last'.message)) =>
            LET paid == system_transfer(Current, last'.tx, last'.ctx.user,
                                        last'.ctx.dev_wallet, 50000000)
            IN  /\ paid.res # "Ok" =>
                      (last'.res = paid.res /\ UNCHANGED ledger)
                /\ (paid.res = "Ok" /\ last'.clock = ClockError) =>
                      (last'.res = "UnsupportedSysvar" /\ UNCHANGED ledger)
                /\ (paid.res = "Ok" /\ last'.clock # ClockError) =>
                      /\ last'.res = "Ok"
                      /\ Len(transfers') = Len(transfers) + 1
                      /\ Len(log') = Len(log) + 1
                      /\ log'[Len(log')].event.name = "MessagePosted"]_vars
    /\ [](\A tx \in 0..MaxTx : TransfersOf(tx) = {} <=> PostedOf(tx) = {})

\* The transfer of a post failed in an instruction whose clock could not
\* have been read either: the error returned is the transfer's.
C13_Witness ==
    /\ last.op = "PostMessage" /\ last.clock = ClockError
    /\ last.res = "ExternalAccountLamportSpend"
    /\ ~SystemOwned(last.ctx.user)

\* The initialized wall accounts.
InitializedWalls == {k \in WallKeys : IsWall(Current, k)}

\* C14: at all times an (owner, wall_id) has at most one wall account, and
\* a wall account sits at the one address its stored owner and wall_id
\* derive, so distinct pairs have distinct accounts.  Walls coexist: an
\* initialize_wall signed by a funded system account, naming the derived
\* address of a pair that has no wall yet, succeeds whatever other walls
\* exist, and no instruction changes a wall account other than the one it
\* names.
C14_OneWallPerPair ==
    /\ [](\A o \in Identities, i \in WallIds : Cardinality(WallsOf(o, i)) <= 1)
    /\ [](\A k \in InitializedWalls :
             k = find_program_address(
                     WallSeeds(walls[k].data.dev_wallet, walls[k].data.wall_id)).address)
    /\ [][last'.op # "none" =>
            /\ \A k \in WallKeys \ {last'.ctx.wall} : walls'[k] = walls[k]
            /\ (/\ last'.op = "InitializeWall"
                /\ last'.ctx.dev_wallet_signed
                /\ last'.ctx.wall
                     = find_program_address(
                           WallSeeds(last'.ctx.dev_wallet, last'.wall_id)).address
                /\ WallsOf(last'.ctx.dev_wallet, last'.wall_id) = {}
                /\ SystemOwned(last'.ctx.dev_wallet)
                /\ lamports[last'.ctx.dev_wallet] >= RentExemptMinimum(WallSpace))
               => last'.res = "Ok"]_vars

\* Three walls coexist: two of one owner, and two with the same wall_id.
C14_Witness ==
    /\ last.op = "InitializeWall" /\ last.res = "Ok"
    /\ Cardinality(InitializedWalls) = 3
    /\ WallsOf("A", 7) # {} /\ WallsOf("A", 8) # {} /\ WallsOf("B", 7) # {}

\* The identity that signed instruction `op`, if the account it names as
\* its signer did sign.
SignersOf(op) ==
    CASE op.op = "PostMessage" ->
            IF op.ctx.user_signed THEN {op.ctx.user} ELSE {}
      [] op.op = "InitializeWall" ->
            IF op.ctx.dev_wallet_signed THEN {op.ctx.dev_wallet} ELSE {}
      [] OTHER -> {}

\* C15: an instruction lowers the balance of no identity but the one that
\* signed it, and only when it succeeds; a post_message whose user did not
\* sign fails with AccountNotSigner and changes nothing; the rent of a wall
\* is taken from the signing owner.
C15_OnlySignerPays ==
    [][/\ \A id \in Identities :
             lamports'[id] < lamports[id]
                => (id \in SignersOf(last') /\ last'.res = "Ok")
       /\ (last'.op = "PostMessage" /\ IsWall(Current, last'.ctx.wall)
           /\ ~last'.ctx.user_signed)
             => (last'.res = "AccountNotSigner" /\ UNCHANGED ledger)
       /\ (last'.op = "InitializeWall" /\ last'.res = "Ok")
             => lamports'[last'.ctx.dev_wallet]
                   = lamports[last'.ctx.dev_wallet] - RentExemptMinimum(WallSpace)]_vars

\* A post naming A as its poster, on an initialized wall with a valid
\* message and A funded, has been turned away because A did not sign.
C15_Witness ==
    /\ last.op = "PostMessage" /\ last.res = "AccountNotSigner"
    /\ last.ctx.user = "A" /\ ~last.ctx.user_signed
    /\ IsWall(Current, last.ctx.wall) /\ last.ctx.dev_wallet = OwnerOf(last.ctx.wall)
    /\ last.message.len = 1 /\ lamports["A"] >= 51000000

\* C16: the event log only grows at its end: an instruction that returns
\* Ok appends exactly one event, MessagePosted for post_message and
\* WallInitialized for initialize_wall, after the events already there,
\* which stay as they were and in their order; any other instruction
\* leaves the log as it was.  A post repeated with the same poster, wall
\* and message is a post like any other: one more event, one more transfer.
C16_LogAppendOnly ==
    [][last'.op # "none" =>
         IF last'.res = "Ok"
         THEN /\ Len(log') = Len(log) + 1
              /\ SubSeq(log', 1, Len(log)) = log
              /\ log'[Len(log')].tx = last'.tx
              /\ log'[Len(log')].event.name
                    = (IF last'.op = "PostMessage" THEN "MessagePosted"
                                                   ELSE "WallInitialized")
              /\ last'.op = "PostMessage" => Len(transfers') = Len(transfers) + 1
         ELSE log' = log /\ transfers' = transfers]_vars

\* The same poster has posted the same message on the same wall twice:
\* two events that differ in nothing but the instruction, and two transfers.
C16_Witness ==
    /\ Len(log) >= 2 /\ Len(transfers) = 2
    /\ log[Len(log)].event = log[Len(log) - 1].event
    /\ log[Len(log)].tx # log[Len(log) - 1].tx
    /\ IsMessagePosted(log[Len(log)])
    /\ transfers[1].from = transfers[2].from /\ transfers[1].to = transfers[2].to

\* The address that the owner, wall_id and bump stored in wall account
\* `key` give.
StoredAddress(key) ==
    create_program_address(
        WallSeeds(walls[key].data.dev_wallet, walls[key].data.wall_id),
        walls[key].data.bump)

\* C17: a post_message naming a wall address that holds no Wall fails with
\* AccountNotInitialized, and one naming an account whose stored
\* dev_wallet, wall_id and bump do not give the account's own address
\* fails (with ConstraintSeeds when user signed and dev_wallet is a system
\* account); either way nothing is transferred and no event appended.  A
\* post that succeeds paid the owner stored in a wall account that sits at
\* the address its contents give.
C17_PostNeedsWallAtItsAddress ==
    [][last'.op = "PostMessage" =>
         LET k == last'.ctx.wall
         IN  /\ ~IsWall(Current, k) =>
                   (last'.res = "AccountNotInitialized" /\ UNCHANGED ledger)
             /\ (IsWall(Current, k) /\ StoredAddress(k) # k) =>
                   /\ last'.res # "Ok" /\ UNCHANGED ledger
                   /\ (last'.ctx.user_signed /\ SystemOwned(last'.ctx.dev_wallet))
                         => last'.res = "ConstraintSeeds"
             /\ last'.res = "Ok" =>
                   /\ IsWall(Current, k) /\ StoredAddress(k) = k
                   /\ transfers'[Len(transfers')].to = walls[k].data.dev_wallet]_vars

\* A post that named the owner stored in the wall account, was signed and
\* carried a valid message has been turned away because the account does
\* not sit at the address its contents give.
C17_Witness ==
    /\ last.op = "PostMessage" /\ last.res = "ConstraintSeeds"
    /\ IsWall(Current, last.ctx.wall)
    /\ StoredAddress(last.ctx.wall) # last.ctx.wall
    /\ last.ctx.dev_wallet = OwnerOf(last.ctx.wall)
    /\ last.message.len = 1 /\ log = <<>> /\ transfers = <<>>

\* A value that a u64 holds: the integers TLC computes with end at
\* 2^31 - 1, inside the range of a u64, so what fits there fits a u64.
FitsU64(n) == n >= 0 /\ n <= 2147483647

\* C18: the sum MESSAGE_FEE_LAMPORTS + TRANSACTION_FEE_BUFFER that the
\* funds check compares with is 51,000,000 and fits a u64.  A post_message
\* that gets past the funds check never fails for lack of lamports in the
\* transfer; a successful post by a poster other than the wall's owner
\* takes exactly 50,000,000 from the poster and leaves it at least
\* 1,000,000; and no balance is ever negative.
C18_FundsCheckCoversTransfer ==
    /\ MESSAGE_FEE_LAMPORTS + TRANSACTION_FEE_BUFFER = 51000000
    /\ FitsU64(MESSAGE_FEE_LAMPORTS) /\ FitsU64(TRANSACTION_FEE_BUFFER)
    /\ FitsU64(MESSAGE_FEE_LAMPORTS + TRANSACTION_FEE_BUFFER)
    /\ [][last'.op = "PostMessage" =>
            /\ last'.res # "InsufficientLamports"
            /\ ReachesTransfer(Current, last'.tx, last'.ctx, last'.message)
                  => lamports[last'.ctx.user] >= 51000000
            /\ (last'.res = "Ok" /\ last'.ctx.user # last'.ctx.dev_wallet) =>
                  /\ lamports'[last'.ctx.user] = lamports[last'.ctx.user] - 50000000
                  /\ lamports'[last'.ctx.user] >= 1000000]_vars
    /\ [](/\ \A id \in Identities : lamports[id] >= 0
          /\ \A k \in WallKeys : walls[k].lamports >= 0)

\* B, who held exactly 51,000,000, has posted on A's wall and is left with
\* exactly the buffer.
C18_Witness ==
    /\ last.op = "PostMessage" /\ last.res = "Ok"
    /\ last.ctx.user = "B" /\ last.ctx.dev_wallet = "A"
    /\ lamports["B"] = 1000000

\* C19: a successful initialize_wall stores as bump the bump that
\* find_program_address returns for the wall's seeds, the one that gives
\* the address the wall is created at.  The seeds constraint of a later
\* post_message rebuilds the address from the dev_wallet, wall_id and bump
\* stored in the wall account, without searching for a bump again: a post
\* whose user signed and whose dev_wallet is a system account is refused
\* with ConstraintSeeds exactly when the stored values do not give the
\* address of the account.
C19_StoredBumpChecksAddress ==
    [][/\ (last'.op = "InitializeWall" /\ last'.res = "Ok") =>
            LET pda == find_program_address(
                           WallSeeds(last'.ctx.dev_wallet, last'.wall_id))
                k   == last'.ctx.wall
            IN  /\ walls'[k].data.bump = pda.bump
                /\ create_program_address(
                       WallSeeds(walls'[k].data.dev_wallet, walls'[k].data.wall_id),
                       walls'[k].data.bump) = k
       /\ (/\ last'.op = "PostMessage"
           /\ IsWall(Current, last'.ctx.wall)
           /\ last'.ctx.user_signed
           /\ SystemOwned(last'.ctx.dev_wallet)) =>
            (last'.res = "ConstraintSeeds"
                <=> StoredAddress(last'.ctx.wall) # last'.ctx.wall)]_vars

\* A post has been accepted on a wall account that sits at the address its
\* stored bump gives, a bump other than the one a fresh search returns.
C19_Witness ==
    /\ last.op = "PostMessage" /\ last.res = "Ok"
    /\ StoredAddress(last.ctx.wall) = last.ctx.wall
    /\ walls[last.ctx.wall].data.bump
          # find_program_address(
                WallSeeds(OwnerOf(last.ctx.wall),
                          walls[last.ctx.wall].data.wall_id)).bump

====
